---- MODULE Spec2Model ----
(***************************************************************************)
(* Model of pdrive-cli (src/src/main.rs): main dispatches a file either to *)
(* single_upload or to split_bytes + multipart_upload.  multipart_upload   *)
(* runs Init, then the part PUTs through                                   *)
(* stream::iter(parts).enumerate().map(..).buffer_unordered(2)             *)
(* collected by try_collect, then the Complete call.                       *)
(*                                                                         *)
(* Sizes are counted in blocks of 25 MiB, so FILE_SPLIT_SIZE (50 MiB) is 2;*)
(* a file is the sequence of its blocks, each block a 0 or a 1.            *)
(* Chunks and part futures are identified by the 0-based index that        *)
(* enumerate() gives them; the part number sent is index + 1.              *)
(***************************************************************************)
EXTENDS Integers, Sequences, FiniteSets, TLC

\* ---------------------------------------------------------------- bounds
MaxFileSize == 5
MaxConcurrent == 3

\* ------------------------------------------------------ program constants
FILE_SPLIT_SIZE == 2
BUFFER_WIDTH == 2

\* ------------------------------------------------- the server's answers
Statuses == {200, 400, 401, 500}
\* a part response is only told apart as 200 or not 200
PartStatuses == {200, 500}
\* the Init status is never looked at: one 200 and one other value
InitStatuses == {200, 401}
FileBytes == {0, 1}
Etags == {"e1", "e2"}
UploadIds == {"u1"}
Locations == {"loc"}
Bodies == {"body"}
NoSession == [key |-> "", upload_id |-> ""]
NoResponse == [status |-> 0, decoded |-> FALSE, part_number |-> 0, etag |-> ""]
NoResult == [tag |-> "None", from |-> "", detail |-> ""]
NoInitResponse == [status |-> 0, decodable |-> FALSE]
NoFinalResponse == [status |-> 0, text |-> "", readable |-> FALSE]

VARIABLES
    pc,                  \* where main is
    file,                \* the content of the file
    bytes,               \* metadata.len() of the file
    concurrent_requests, \* Config.concurrent_requests
    splits,              \* the chunks split_bytes returned
    multipart,           \* the R2Multipart session decoded from Init
    next_index,          \* how many items enumerate() has handed out
    in_progress,         \* indices of the futures held by buffer_unordered
    ready_queue,         \* its ready-to-run queue (FIFO of indices)
    fut,                 \* index -> the await the part future is parked at
    uploaded_parts,      \* the Vec try_collect is filling
    put_count,           \* index -> number of PUTs issued for that chunk
    put_number,          \* index -> partNumber query parameter of its PUT
    server_resp,         \* index -> what the server answered to its PUT
    finished,            \* indices in the order their futures returned Ok
    init_resp,           \* what the server answered to the Init POST
    final_resp,          \* what it answered to the single or the Complete POST
    calls,               \* number of upload / init / finish requests issued,
                         \* and of split_bytes calls
    complete_body,       \* JSON body of the Complete call
    result               \* what the run ended with

vars == <<pc, file, bytes, concurrent_requests, splits, multipart,
          next_index, in_progress, ready_queue, fut, uploaded_parts,
          put_count, put_number, server_resp, finished, init_resp,
          final_resp, calls, complete_body, result>>

partVars == <<next_index, in_progress, ready_queue, fut, uploaded_parts,
              put_count, put_number, server_resp, finished>>

otherVars == <<file, bytes, concurrent_requests, splits>>

Indices == 0 .. (MaxFileSize - 1)

Min(a, b) == IF a < b THEN a ELSE b

InSeq(x, s) == \E k \in 1..Len(s) : s[k] = x

\* ------------------------------------------------------------ split_bytes
\* the loop: take(FILE_SPLIT_SIZE).read_to_end reads n bytes from the rest
\* of the file; n = 0 ends the loop, otherwise the buffer is pushed
RECURSIVE ReadLoop(_)
ReadLoop(rest) ==
    LET n == Min(Len(rest), FILE_SPLIT_SIZE)
    IN  IF n = 0 THEN <<>>
        ELSE <<SubSeq(rest, 1, n)>> \o ReadLoop(SubSeq(rest, n + 1, Len(rest)))

\* variant: the loop pushes the buffer before it tests n = 0
split_bytes_push_first(content) == ReadLoop(content) \o << <<>> >>

split_bytes(content) == ReadLoop(content)

\* variant: the size test of main is strict
IsSmallStrict == bytes < FILE_SPLIT_SIZE

\* the test of main that sends a file to single_upload
IsSmall == bytes <= FILE_SPLIT_SIZE

\* ------------------------------------------------ pieces of the coordinator
\* variant: the 0-based enumerate() index is sent as it is
PartNumberZeroBased(index) == index

\* partNumber query parameter for the chunk enumerate() numbered index
PartNumber(index) == index + 1

\* variant: the width is taken from the configuration
BufferWidthFromConfig == concurrent_requests

\* width given to buffer_unordered
BufferWidth == BUFFER_WIDTH

\* variant: the part is tagged with the local enumerate() index
DecodePartLocal(index, pn, etag) ==
    [part_number |-> index, etag |-> etag, chunk |-> index]

\* variant: the part number is recomputed from the enumerate() index
DecodePartRecomputed(index, pn, etag) ==
    [part_number |-> index + 1, etag |-> etag, chunk |-> index]

\* the R2Part decoded from a part's 200 body: the server's fields
DecodePart(index, pn, etag) ==
    [part_number |-> pn, etag |-> etag, chunk |-> index]

\* variant: only the item yielded last is kept
CollectLatest(parts, item) == <<item>>

\* variant: the item is put at its chunk position, as buffered() would
CollectInOrder(parts, item) ==
    LET before == SelectSeq(parts, LAMBDA e : e.chunk < item.chunk)
        after == SelectSeq(parts, LAMBDA e : e.chunk > item.chunk)
    IN  before \o <<item>> \o after

\* try_collect extends the Vec with the item the stream yielded
Collect(parts, item) == Append(parts, item)

\* variant: the parts are sorted by chunk position before they are sent
RECURSIVE SortByChunk(_)
SortByChunk(parts) ==
    IF parts = <<>> THEN <<>>
    ELSE LET least == CHOOSE e \in {parts[k] : k \in 1..Len(parts)} :
                        \A k \in 1..Len(parts) : e.chunk <= parts[k].chunk
         IN  <<least>> \o SortByChunk(SelectSeq(parts, LAMBDA e : e # least))

CompleteJsonSorted(parts) == SortByChunk(parts)

\* body of the Complete call
CompleteJson(parts) == parts

\* variant: the stream stops one chunk early
HasNextSkipLast == next_index < Len(splits) - 1

\* stream::iter(parts) has another chunk to hand out
HasNext == next_index < Len(splits)

\* variant: the next futures are pulled only once the buffer has drained
CanFillWhenDrained ==
    /\ in_progress = {}
    /\ HasNext

\* buffer_unordered may pull another future from the stream
CanFill ==
    /\ Cardinality(in_progress) < BufferWidth
    /\ HasNext

\* variant: the ready-to-run queue is a stack
EnqueueFront(queue, index) == <<index>> \o queue

\* a future enters the ready-to-run queue of buffer_unordered
Enqueue(queue, index) == Append(queue, index)

\* the future index ended the stream (how: "failed" or "panicked"); the
\* stream and every other future still in it are dropped
DropStream(index, how) ==
    /\ in_progress' = {}
    /\ ready_queue' = <<>>
    /\ fut' = [i \in Indices |->
                 IF i = index THEN how
                 ELSE IF i \in in_progress THEN "dropped" ELSE fut[i]]

Ok(loc) == [tag |-> "Ok", from |-> "server", detail |-> loc]
Err(from, detail) == [tag |-> "Err", from |-> from, detail |-> detail]
Panic(from, detail) == [tag |-> "Panic", from |-> from, detail |-> detail]

Init ==
    /\ pc = "start"
    /\ bytes \in 0..MaxFileSize
    /\ file = [p \in 1..bytes |-> p % 2]
    /\ concurrent_requests \in {1, 2, MaxConcurrent}
    /\ splits = <<>>
    /\ multipart = NoSession
    /\ next_index = 0
    /\ in_progress = {}
    /\ ready_queue = <<>>
    /\ fut = [i \in Indices |-> "none"]
    /\ uploaded_parts = <<>>
    /\ put_count = [i \in Indices |-> 0]
    /\ put_number = [i \in Indices |-> 0]
    /\ server_resp = [i \in Indices |-> NoResponse]
    /\ finished = <<>>
    /\ init_resp = NoInitResponse
    /\ final_resp = NoFinalResponse
    /\ calls = [upload |-> 0, init |-> 0, finish |-> 0, split |-> 0]
    /\ complete_body = <<>>
    /\ result = NoResult

\* ------------------------------------------------------------------ main
\* confy::load, metadata(), File::open or a read fails: main returns Err
MainFsError ==
    /\ pc = "start"
    /\ pc' = "error"
    /\ result' = Err("fs", "io")
    /\ UNCHANGED <<otherVars, multipart, partVars, init_resp, final_resp,
                   calls, complete_body>>

\* bytes <= FILE_SPLIT_SIZE: single_upload reads the file and sends the POST
MainSingle ==
    /\ pc = "start"
    /\ IsSmall
    /\ pc' = "single_sent"
    /\ calls' = [calls EXCEPT !.upload = @ + 1]
    /\ UNCHANGED <<otherVars, multipart, partVars, init_resp, final_resp,
                   complete_body, result>>

\* otherwise: split_bytes, then multipart_upload sends the Init POST
MainMultipart ==
    /\ pc = "start"
    /\ ~IsSmall
    /\ splits' = split_bytes(file)
    /\ pc' = "init_sent"
    /\ calls' = [calls EXCEPT !.split = @ + 1, !.init = @ + 1]
    /\ UNCHANGED <<file, bytes, concurrent_requests, multipart, partVars,
                   init_resp, final_resp, complete_body, result>>

\* --------------------------------------------------------- single_upload
\* where main ends up with the Result r
PcOf(r) ==
    IF r.tag = "Ok" THEN "done" ELSE IF r.tag = "Err" THEN "error" ELSE "panicked"

\* variant: the 401 arm carries the server's body like the 400 arm
SingleOutcomeBodyOn401(status, text, readable) ==
    CASE status = 200 ->
           IF readable THEN Ok(text) ELSE Err("single", "transport")
      [] status \in {400, 401} ->
           IF readable THEN Err("client", text) ELSE Err("single", "transport")
      [] OTHER -> Panic("single", "Unexpected status code")

\* match res.status(): text is the body, readable whether res.text().await
\* yields it
SingleOutcome(status, text, readable) ==
    CASE status = 200 ->
           IF readable THEN Ok(text) ELSE Err("single", "transport")
      [] status = 400 ->
           IF readable THEN Err("client", text) ELSE Err("single", "transport")
      [] status = 401 -> Err("client", "Wrong token")
      [] OTHER -> Panic("single", "Unexpected status code")

\* what comes back from the single POST: send() fails, or a response
SingleResponse ==
    /\ pc = "single_sent"
    /\ \/ /\ result' = Err("single", "transport")
          /\ UNCHANGED final_resp
       \/ \E status \in Statuses, text \in Bodies, readable \in BOOLEAN :
            /\ final_resp' = [status |-> status, text |-> text,
                              readable |-> readable]
            /\ result' = SingleOutcome(status, text, readable)
    /\ pc' = PcOf(result')
    /\ UNCHANGED <<otherVars, multipart, partVars, init_resp, calls,
                   complete_body>>

\* ------------------------------------------------------ multipart_upload

\* the ways Init ends in Err: send() fails, or a response of some status
\* whose body json::<R2Multipart>() cannot decode
InitFailure ==
    \/ /\ result' = Err("init", "transport")
       /\ UNCHANGED init_resp
    \/ \E status \in InitStatuses :
         /\ init_resp' = [status |-> status, decodable |-> FALSE]
         /\ result' = Err("init", "decode")

\* variant: the Init error is noted and the upload carries on
InitFailsIgnored ==
    /\ pc = "init_sent"
    /\ InitFailure
    /\ pc' = "parts"
    /\ UNCHANGED <<otherVars, multipart, partVars, final_resp, calls,
                   complete_body>>

\* variant: an Init failure aborts the process
InitFailsPanics ==
    /\ pc = "init_sent"
    /\ InitFailure
    /\ pc' = "panicked"
    /\ UNCHANGED <<otherVars, multipart, partVars, final_resp, calls,
                   complete_body>>

\* Init: send() fails, or json::<R2Multipart>() cannot decode the body
InitFails ==
    /\ pc = "init_sent"
    /\ InitFailure
    /\ pc' = "error"
    /\ UNCHANGED <<otherVars, multipart, partVars, final_resp, calls,
                   complete_body>>

\* variant: a status other than 200 is turned into an error
InitDecodedStatusChecked ==
    /\ pc = "init_sent"
    /\ \E status \in InitStatuses, id \in UploadIds :
         /\ init_resp' = [status |-> status, decodable |-> TRUE]
         /\ IF status = 200
            THEN /\ multipart' = [key |-> "key", upload_id |-> id]
                 /\ pc' = "parts"
                 /\ UNCHANGED result
            ELSE /\ result' = Err("init", "status")
                 /\ pc' = "error"
                 /\ UNCHANGED multipart
    /\ UNCHANGED <<otherVars, partVars, final_resp, calls, complete_body>>

\* Init: the body decodes into key and uploadId; the status is not looked at
InitDecoded ==
    /\ pc = "init_sent"
    /\ \E status \in InitStatuses, id \in UploadIds :
         /\ init_resp' = [status |-> status, decodable |-> TRUE]
         /\ multipart' = [key |-> "key", upload_id |-> id]
    /\ pc' = "parts"
    /\ UNCHANGED <<otherVars, partVars, final_resp, calls, complete_body,
                   result>>

\* buffer_unordered pulls the next (index, part) from the stream and pushes
\* its future, not yet polled, into the in-progress queue
Fill ==
    /\ pc = "parts"
    /\ CanFill
    /\ in_progress' = in_progress \cup {next_index}
    /\ ready_queue' = Enqueue(ready_queue, next_index)
    /\ fut' = [fut EXCEPT ![next_index] = "unpolled"]
    /\ next_index' = next_index + 1
    /\ UNCHANGED <<pc, otherVars, multipart, uploaded_parts, put_count,
                   put_number, server_resp, finished, init_resp, final_resp, calls, complete_body,
                   result>>

\* variant: a future parked on its response body is never woken
WakeOnlyOnHeaders(index) ==
    /\ pc = "parts"
    /\ index \in in_progress
    /\ fut[index] = "send"
    /\ ~InSeq(index, ready_queue)
    /\ ready_queue' = Enqueue(ready_queue, index)
    /\ UNCHANGED <<pc, otherVars, multipart, next_index, in_progress, fut,
                   uploaded_parts, put_count, put_number, server_resp,
                   finished, init_resp, final_resp, calls, complete_body,
                   result>>

\* the network wakes a parked part future: it joins the ready-to-run queue
Wake(index) ==
    /\ pc = "parts"
    /\ index \in in_progress
    /\ fut[index] \in {"send", "json", "text"}
    /\ ~InSeq(index, ready_queue)
    /\ ready_queue' = Enqueue(ready_queue, index)
    /\ UNCHANGED <<pc, otherVars, multipart, next_index, in_progress, fut,
                   uploaded_parts, put_count, put_number, server_resp,
                   finished, init_resp, final_resp, calls, complete_body, result>>

\* the queue polls the future at its head
Polling(index) ==
    /\ pc = "parts"
    /\ ~CanFill
    /\ ready_queue # <<>>
    /\ index = Head(ready_queue)

\* first poll of a part future: the PUT is sent
PartStart(index) ==
    /\ Polling(index)
    /\ fut[index] = "unpolled"
    /\ put_count' = [put_count EXCEPT ![index] = @ + 1]
    /\ put_number' = [put_number EXCEPT ![index] = PartNumber(index)]
    /\ fut' = [fut EXCEPT ![index] = "send"]
    /\ ready_queue' = Tail(ready_queue)
    /\ UNCHANGED <<pc, otherVars, multipart, next_index, in_progress,
                   uploaded_parts, server_resp, finished, init_resp, final_resp, calls,
                   complete_body, result>>

\* variant: the failed part is noted and left out, the others carry on
PartAbortContinue(index, cause) ==
    /\ pc' = pc
    /\ result' = Err("part", cause)
    /\ in_progress' = in_progress \ {index}
    /\ ready_queue' = Tail(ready_queue)
    /\ fut' = [fut EXCEPT ![index] = "failed"]
    /\ UNCHANGED <<otherVars, multipart, next_index, uploaded_parts,
                   put_count, put_number, finished, init_resp, final_resp, calls, complete_body>>

\* a part future returns Err: try_collect returns it, the stream is dropped
PartAbort(index, cause) ==
    /\ pc' = "error"
    /\ result' = Err("part", cause)
    /\ DropStream(index, "failed")
    /\ UNCHANGED <<otherVars, multipart, next_index, uploaded_parts,
                   put_count, put_number, finished, init_resp, final_resp, calls, complete_body>>

\* send().await? fails
PartSendFails(index) ==
    /\ Polling(index)
    /\ fut[index] = "send"
    /\ PartAbort(index, "send")
    /\ UNCHANGED server_resp

\* variant: the status is not tested, every response goes on to json()
PartResponseNoStatusCheck(index) ==
    /\ Polling(index)
    /\ fut[index] = "send"
    /\ \E status \in PartStatuses :
         /\ server_resp' = [server_resp EXCEPT ![index].status = status]
         /\ fut' = [fut EXCEPT ![index] = "json"]
    /\ \/ ready_queue' = ready_queue
       \/ ready_queue' = Tail(ready_queue)
    /\ UNCHANGED <<pc, otherVars, multipart, next_index, in_progress,
                   uploaded_parts, put_count, put_number, finished,
                   init_resp, final_resp, calls, complete_body, result>>

\* send().await yields a response: 200 goes on to json(), others to text().
\* The body may be there already (the future carries on in the same poll)
\* or not (the future parks again).
PartResponse(index) ==
    /\ Polling(index)
    /\ fut[index] = "send"
    /\ \E status \in PartStatuses :
         /\ server_resp' = [server_resp EXCEPT ![index].status = status]
         /\ fut' = [fut EXCEPT ![index] =
                        IF status # 200 THEN "text" ELSE "json"]
    /\ \/ ready_queue' = ready_queue
       \/ ready_queue' = Tail(ready_queue)
    /\ UNCHANGED <<pc, otherVars, multipart, next_index, in_progress,
                   uploaded_parts, put_count, put_number, finished, init_resp, final_resp, calls,
                   complete_body, result>>

\* resp.json::<R2Part>() decodes the 200 body: the stream yields Ok(part),
\* try_collect pushes it
PartDecoded(index) ==
    /\ Polling(index)
    /\ fut[index] = "json"
    /\ \E pn \in 1..Len(splits), etag \in Etags :
         /\ server_resp' = [server_resp EXCEPT ![index] =
                [@ EXCEPT !.decoded = TRUE, !.part_number = pn, !.etag = etag]]
         /\ uploaded_parts' = Collect(uploaded_parts, DecodePart(index, pn, etag))
    /\ finished' = Append(finished, index)
    /\ fut' = [fut EXCEPT ![index] = "done"]
    /\ in_progress' = in_progress \ {index}
    /\ ready_queue' = Tail(ready_queue)
    /\ UNCHANGED <<pc, otherVars, multipart, next_index, put_count,
                   put_number, init_resp, final_resp, calls, complete_body, result>>

\* resp.json::<R2Part>() fails on the 200 body
PartUndecodable(index) ==
    /\ Polling(index)
    /\ fut[index] = "json"
    /\ PartAbort(index, "decode")
    /\ UNCHANGED server_resp

\* status other than 200 and the body was read: panic!
PartPanics(index) ==
    /\ Polling(index)
    /\ fut[index] = "text"
    /\ pc' = "panicked"
    /\ result' = Panic("part", "Unexpected status code")
    /\ DropStream(index, "panicked")
    /\ UNCHANGED <<otherVars, multipart, next_index, uploaded_parts,
                   put_count, put_number, server_resp, finished, init_resp, final_resp, calls,
                   complete_body>>

\* status other than 200 and resp.text().await? fails
PartTextFails(index) ==
    /\ Polling(index)
    /\ fut[index] = "text"
    /\ PartAbort(index, "text")
    /\ UNCHANGED server_resp

\* the stream is exhausted: try_collect returns the Vec and the Complete
\* POST is sent with it as JSON body
SendComplete ==
    /\ pc = "parts"
    /\ in_progress = {}
    /\ ~HasNext
    /\ complete_body' = CompleteJson(uploaded_parts)
    /\ calls' = [calls EXCEPT !.finish = @ + 1]
    /\ pc' = "complete_sent"
    /\ UNCHANGED <<otherVars, multipart, partVars, init_resp, final_resp,
                   result>>

\* variant: the body of any response is taken as the location
CompleteOutcomeNoStatusCheck(status, text, readable) ==
    IF ~readable THEN Err("complete", "text") ELSE Ok(text)

\* match complete_resp.status(): both arms read the body with text().await?
CompleteOutcome(status, text, readable) ==
    IF ~readable THEN Err("complete", "text")
    ELSE IF status = 200 THEN Ok(text)
         ELSE Panic("complete", "Unexpected status code")

\* what comes back from the Complete call: send() fails, or a response
CompleteResponse ==
    /\ pc = "complete_sent"
    /\ \/ /\ result' = Err("complete", "transport")
          /\ UNCHANGED final_resp
       \/ \E status \in Statuses, text \in Locations, readable \in BOOLEAN :
            /\ final_resp' = [status |-> status, text |-> text,
                              readable |-> readable]
            /\ result' = CompleteOutcome(status, text, readable)
    /\ pc' = PcOf(result')
    /\ UNCHANGED <<otherVars, multipart, partVars, init_resp, calls,
                   complete_body>>

Next ==
    \/ MainFsError
    \/ MainSingle
    \/ MainMultipart
    \/ SingleResponse
    \/ InitFails
    \/ InitDecoded
    \/ Fill
    \/ \E index \in Indices : Wake(index)
    \/ \E index \in Indices : PartStart(index)
    \/ \E index \in Indices : PartSendFails(index)
    \/ \E index \in Indices : PartResponse(index)
    \/ \E index \in Indices : PartDecoded(index)
    \/ \E index \in Indices : PartUndecodable(index)
    \/ \E index \in Indices : PartPanics(index)
    \/ \E index \in Indices : PartTextFails(index)
    \/ SendComplete
    \/ CompleteResponse

Spec == Init /\ [][Next]_vars

\* ------------------------------------------- split_bytes on its own
\* split_bytes applied to every file content up to MaxFileSize
Files == UNION {[1..n -> FileBytes] : n \in 0..MaxFileSize}

SplitInit ==
    /\ pc = "split_start"
    /\ file \in Files
    /\ bytes = Len(file)
    /\ concurrent_requests = 2
    /\ splits = <<>>
    /\ multipart = NoSession
    /\ next_index = 0
    /\ in_progress = {}
    /\ ready_queue = <<>>
    /\ fut = [i \in Indices |-> "none"]
    /\ uploaded_parts = <<>>
    /\ put_count = [i \in Indices |-> 0]
    /\ put_number = [i \in Indices |-> 0]
    /\ server_resp = [i \in Indices |-> NoResponse]
    /\ finished = <<>>
    /\ init_resp = NoInitResponse
    /\ final_resp = NoFinalResponse
    /\ calls = [upload |-> 0, init |-> 0, finish |-> 0, split |-> 0]
    /\ complete_body = <<>>
    /\ result = NoResult

SplitRun ==
    /\ pc = "split_start"
    /\ splits' = split_bytes(file)
    /\ calls' = [calls EXCEPT !.split = @ + 1]
    /\ pc' = "split_done"
    /\ UNCHANGED <<file, bytes, concurrent_requests, multipart, partVars,
                   init_resp, final_resp, complete_body, result>>

SplitNext == SplitRun

SplitSpec == SplitInit /\ [][SplitNext]_vars

\* every request sent is answered or fails, and the executor keeps polling:
\* a step that can be taken is eventually taken
FairSpec == Spec /\ WF_vars(Next)

\* ================================================================ claims
NumChunks == Len(splits)
Chunks == 0 .. (NumChunks - 1)
CompleteIssued == calls.finish > 0
ChunksOf(parts) == [k \in 1..Len(parts) |-> parts[k].chunk]
NumbersOf(parts) == [k \in 1..Len(parts) |-> parts[k].part_number]
Ascending(s) == \A j, k \in 1..Len(s) : j < k => s[j] < s[k]
EntriesFor(parts, i) == {k \in 1..Len(parts) : parts[k].chunk = i}
\* PUTs sent whose future has not returned yet
InFlight == {i \in Indices : fut[i] \in {"send", "json", "text"}}
\* every answer the server gave repeats the part number it was asked for
ServerEchoes ==
    \A i \in Indices :
        server_resp[i].decoded => server_resp[i].part_number = put_number[i]

\* C1: no chunk is PUT more than once, and once the Complete call is issued
\* every chunk has been PUT exactly once and has exactly one PartResult
\* recorded in uploaded_parts.
C1_ExactlyOnce ==
    /\ \A i \in Indices : put_count[i] <= 1
    /\ CompleteIssued =>
         /\ Len(uploaded_parts) = NumChunks
         /\ \A i \in Chunks :
              /\ put_count[i] = 1
              /\ Cardinality(EntriesFor(uploaded_parts, i)) = 1

C1_Witness ==
    /\ pc = "complete_sent"
    /\ NumChunks = 3
    /\ \A i \in Chunks : put_count[i] = 1

\* C2 as stated: whenever Complete is issued its body has N PartResults whose
\* part numbers are exactly 1..N, without duplicates.
C2_Original ==
    CompleteIssued =>
        /\ Len(complete_body) = NumChunks
        /\ {complete_body[k].part_number : k \in 1..Len(complete_body)}
             = 1..NumChunks

\* C2 amended: whenever Complete is issued its body has exactly N PartResults,
\* one per chunk, each with the part number the server returned for that
\* chunk; when every server answer repeated the requested part number these
\* numbers are exactly 1..N without duplicates.
C2_BodyCovers ==
    CompleteIssued =>
        /\ Len(complete_body) = NumChunks
        /\ \A i \in Chunks :
             \E k \in 1..Len(complete_body) :
                /\ complete_body[k].chunk = i
                /\ complete_body[k].part_number = server_resp[i].part_number
        /\ ServerEchoes =>
             {complete_body[k].part_number : k \in 1..Len(complete_body)}
                = 1..NumChunks

C2_Witness ==
    /\ CompleteIssued
    /\ NumChunks = 3
    /\ ServerEchoes
    /\ Len(complete_body) = 3

\* C3: no part PUT is sent before Init was decoded into a session; Complete is
\* issued only after every part returned 200 and was decoded; no part PUT is
\* sent once Complete has been issued.
C3_PhaseState ==
    /\ \A i \in Indices : put_count[i] > 0 => multipart # NoSession
    /\ CompleteIssued =>
         \A i \in Chunks :
            server_resp[i].status = 200 /\ server_resp[i].decoded
C3_PhaseStep ==
    /\ calls'.finish > calls.finish =>
         (multipart # NoSession /\ \A i \in Chunks : fut[i] = "done")
    /\ CompleteIssued => put_count' = put_count
C3_Phases == []C3_PhaseState /\ [][C3_PhaseStep]_vars

C3_Witness ==
    /\ pc = "done"
    /\ CompleteIssued
    /\ NumChunks >= 2
    /\ \A i \in Chunks : server_resp[i].status = 200

\* C4: at most 2 part PUTs are in flight at any moment, whatever
\* concurrent_requests is.
C4_AtMostTwo == Cardinality(InFlight) <= 2

C4_Witness ==
    /\ concurrent_requests = 3
    /\ Cardinality(InFlight) = 2
    /\ HasNext
    /\ ready_queue = <<>>

\* C5: the set of parts whose PUT was sent is always a prefix of the chunk
\* sequence, and a step that sends the PUT of a part finds the PUTs of all
\* earlier parts sent.
C5_PrefixState ==
    \A i \in Indices : put_count[i] > 0 =>
        \A j \in 0..(i - 1) : put_count[j] > 0
C5_PrefixStep ==
    \A i \in Indices : put_count'[i] > put_count[i] =>
        \A j \in 0..(i - 1) : put_count[j] > 0
C5_DispatchOrder == []C5_PrefixState /\ [][C5_PrefixStep]_vars

C5_Witness ==
    /\ NumChunks >= 3
    /\ put_count[2] > 0
    /\ fut[1] = "done"
    /\ fut[0] = "send"

\* C6 as stated: chunk i is sent with partNumber i and its PartResult in the
\* Complete payload carries part number i and the etag the server returned.
C6_Original ==
    /\ \A i \in Indices : put_count[i] > 0 => put_number[i] = i + 1
    /\ CompleteIssued =>
         \A k \in 1..Len(complete_body) :
            /\ complete_body[k].part_number = complete_body[k].chunk + 1
            /\ complete_body[k].etag = server_resp[complete_body[k].chunk].etag

\* C6 amended: for every interleaving chunk i is sent with partNumber i, and
\* its PartResult in the Complete payload carries the part number and the
\* etag the server returned for that chunk; that part number is i when the
\* server repeated the number it was asked for.
C6_Tagging ==
    /\ \A i \in Indices : put_count[i] > 0 => put_number[i] = i + 1
    /\ CompleteIssued =>
         \A k \in 1..Len(complete_body) :
            LET e == complete_body[k]
                answer == server_resp[e.chunk]
            IN  /\ e.part_number = answer.part_number
                /\ e.etag = answer.etag
                /\ answer.part_number = put_number[e.chunk]
                     => e.part_number = e.chunk + 1

C6_Witness ==
    /\ CompleteIssued
    /\ ~Ascending(finished)
    /\ ServerEchoes
    /\ \E i, j \in Chunks : server_resp[i].etag # server_resp[j].etag

\* C7 as stated: uploaded_parts is in original chunk order for every order
\* in which the part uploads complete.
C7_Original == Ascending(ChunksOf(uploaded_parts))

\* C7 amended: uploaded_parts holds the PartResults in the order in which the
\* part uploads completed; it is in original chunk order exactly when the
\* parts completed in that order.
C7_CompletionOrder ==
    /\ ChunksOf(uploaded_parts) = finished
    /\ Ascending(ChunksOf(uploaded_parts)) <=> Ascending(finished)

C7_Witness ==
    /\ pc = "parts"
    /\ Len(uploaded_parts) >= 2
    /\ ~Ascending(finished)

\* C8: the Complete body lists the PartResults in the order the scheduler
\* collected them, the order in which the part uploads finished.  (That a
\* body that is not ascending is reachable with 2 chunks is C8_Witness.)
C8_BodyAsCollected ==
    CompleteIssued =>
        /\ complete_body = uploaded_parts
        /\ ChunksOf(complete_body) = finished

C8_Witness ==
    /\ CompleteIssued
    /\ NumChunks = 2
    /\ ChunksOf(complete_body) = <<1, 0>>
    /\ ~Ascending(NumbersOf(complete_body))

\* C9: when Init fails the error is returned to the caller, no part PUT and
\* no Complete call is ever issued.
C9_InitFailed == result.from = "init"
C9_State ==
    C9_InitFailed =>
        /\ result.tag = "Err"
        /\ pc = "error"
        /\ \A i \in Indices : put_count[i] = 0
        /\ calls.finish = 0
C9_Step == C9_InitFailed => UNCHANGED <<put_count, calls, result, pc>>
C9_InitFailureStops == []C9_State /\ [][C9_Step]_vars

C9_Witness ==
    /\ result = Err("init", "decode")
    /\ calls.init = 1

\* C10: when a part upload fails with a transport failure the error is
\* returned; afterwards no further part is dispatched, the failed part is not
\* sent again, and no Complete or other call is issued.
C10_PartFailed == result.tag = "Err" /\ result.from = "part"
C10_State ==
    C10_PartFailed =>
        /\ pc = "error"
        /\ calls.finish = 0
        /\ in_progress = {}
        /\ \A i \in Indices : put_count[i] <= 1
C10_Step ==
    C10_PartFailed => UNCHANGED <<put_count, calls, result, pc, next_index>>
C10_PartFailureStops == []C10_State /\ [][C10_Step]_vars

C10_Witness ==
    /\ result = Err("part", "send")
    /\ HasNext
    /\ \E i \in Indices : fut[i] = "dropped"

\* part index got a response whose status is not 200
NonOkPart(i) == server_resp[i].status \notin {0, 200}
SomeNonOkPart == \E i \in Indices : NonOkPart(i)

\* C11 as stated: once a part PUT got a status other than 200 the run can
\* only end in a crash, never in a returned error.
C11_Original == SomeNonOkPart => pc \in {"parts", "panicked"}

\* C11 amended: once a part PUT got a status other than 200 the upload never
\* succeeds and Complete is never issued; the process crashes when that
\* response's body has been read, and a typed error is returned instead when
\* reading that body fails or another part fails with a transport failure
\* first; either way the other in-flight and pending parts are abandoned.
C11_State ==
    SomeNonOkPart =>
        /\ calls.finish = 0
        /\ pc \in {"parts", "panicked", "error"}
        /\ pc = "panicked" =>
             /\ result = Panic("part", "Unexpected status code")
             /\ \E i \in Indices : fut[i] = "panicked" /\ NonOkPart(i)
        /\ pc = "error" =>
             /\ result \in {Err("part", "text"), Err("part", "send"),
                            Err("part", "decode")}
             /\ \A i \in Indices :
                  (fut[i] = "failed" /\ NonOkPart(i)) => result.detail = "text"
        /\ pc # "parts" => (in_progress = {} /\ InFlight = {})
C11_Step ==
    (SomeNonOkPart /\ pc # "parts") => UNCHANGED <<put_count, calls, pc, result>>
C11_NonOkPart == []C11_State /\ [][C11_Step]_vars

C11_Witness ==
    /\ pc = "panicked"
    /\ result.from = "part"
    /\ HasNext
    /\ \E i \in Indices : fut[i] = "dropped" /\ put_count[i] = 1

\* the Complete call was answered with a status line
CompleteAnswered == CompleteIssued /\ final_resp.status # 0

\* C12 as stated: Complete answered 200 means success with the response body
\* as location; any other status means a crash.
C12_Original ==
    CompleteAnswered =>
        IF final_resp.status = 200
        THEN pc = "done" /\ result = Ok(final_resp.text)
        ELSE pc = "panicked"

\* C12 amended: when the Complete call returns 200 and its body is read,
\* multipart_upload returns the body as the final location; when it returns
\* another status and the body is read, the process crashes; when the body
\* cannot be read, a typed error is returned whatever the status.
C12_CompleteOutcome ==
    /\ CompleteAnswered =>
         IF ~final_resp.readable
         THEN pc = "error" /\ result = Err("complete", "text")
         ELSE IF final_resp.status = 200
              THEN pc = "done" /\ result = Ok(final_resp.text)
              ELSE pc = "panicked" /\ result.tag = "Panic"
    /\ (CompleteIssued /\ result.tag = "Ok") =>
         (final_resp.status = 200 /\ final_resp.readable)

C12_Witness ==
    /\ CompleteIssued
    /\ final_resp.status = 500
    /\ final_resp.readable
    /\ pc = "panicked"
    /\ result.from = "complete"

Terminal == pc \in {"done", "error", "panicked"}
WholeUploadSucceeded ==
    /\ final_resp.status = 200
    /\ final_resp.readable
    /\ \/ /\ calls.upload = 1
          /\ calls.init = 0
       \/ /\ CompleteIssued
          /\ Len(complete_body) = NumChunks
          /\ \A i \in Chunks :
               server_resp[i].status = 200 /\ server_resp[i].decoded

\* C13: when every request is answered or fails, every run ends in exactly
\* one of: URL emitted, error returned, crash; it stays there; and the URL is
\* emitted only when the whole upload succeeded.
C13_OneOutcome ==
    /\ Terminal <=> result # NoResult
    /\ Terminal => pc = PcOf(result)
    /\ pc = "done" => WholeUploadSucceeded
C13_Terminates ==
    /\ <>Terminal
    /\ []C13_OneOutcome
    /\ [][Terminal => UNCHANGED vars]_vars

C13_Witness ==
    /\ pc = "done"
    /\ CompleteIssued
    /\ NumChunks = 3
    /\ ~Ascending(finished)

\* main got past reading the configuration and the file
Dispatched == pc # "start" /\ result.from # "fs"

\* C14: a file of size S <= T (S = T included) gets exactly one POST to
\* /upload, no split_bytes call and no init, part or finish call; a file of
\* size S > T gets no POST to /upload, is split and goes to multipart_upload.
\* (A run that ends in a filesystem error sends nothing at all.)
C14_Dispatch ==
    IF bytes <= FILE_SPLIT_SIZE
    THEN /\ calls.upload <= 1
         /\ Dispatched => calls.upload = 1
         /\ calls.split = 0
         /\ calls.init = 0
         /\ calls.finish = 0
         /\ \A i \in Indices : put_count[i] = 0
    ELSE /\ calls.upload = 0
         /\ calls.split <= 1
         /\ calls.init <= 1
         /\ Dispatched =>
              /\ calls.split = 1
              /\ calls.init = 1
              /\ Len(splits) >= 2

C14_Witness ==
    /\ bytes = FILE_SPLIT_SIZE
    /\ calls.upload = 1
    /\ pc = "done"

RECURSIVE Concat(_)
Concat(chunks) ==
    IF chunks = <<>> THEN <<>> ELSE Head(chunks) \o Concat(Tail(chunks))
CeilDiv(a, b) == (a + b - 1) \div b

\* C15: for a file of size S > T the chunks of split_bytes concatenate to the
\* file content, there are ceil(S / T) of them, all but the last have length
\* T, the last has length S mod T (T when S is a multiple of T), none is
\* empty.
C15_Chunks ==
    (pc = "split_done" /\ Len(file) > FILE_SPLIT_SIZE) =>
        LET S == Len(file)
            T == FILE_SPLIT_SIZE
            N == Len(splits)
        IN  /\ Concat(splits) = file
            /\ N = CeilDiv(S, T)
            /\ \A k \in 1..(N - 1) : Len(splits[k]) = T
            /\ Len(splits[N]) = (IF S % T = 0 THEN T ELSE S % T)
            /\ \A k \in 1..N : Len(splits[k]) > 0

C15_Witness ==
    /\ pc = "split_done"
    /\ Len(file) = 2 * FILE_SPLIT_SIZE
    /\ Len(splits) = 2
    /\ \E p, q \in 1..Len(file) : file[p] # file[q]

\* the single POST was answered with a status line
SingleAnswered == calls.upload = 1 /\ final_resp.status # 0

\* C16 as stated: 200 returns the body as location, 400 a typed error with
\* the server's body, 401 a typed error with the fixed message, any other
\* status crashes.
C16_Original ==
    SingleAnswered =>
        CASE final_resp.status = 200 ->
               pc = "done" /\ result = Ok(final_resp.text)
          [] final_resp.status = 400 ->
               pc = "error" /\ result = Err("client", final_resp.text)
          [] final_resp.status = 401 ->
               pc = "error" /\ result = Err("client", "Wrong token")
          [] OTHER -> pc = "panicked"

\* C16 amended: 200 with a body that is read returns the body as location;
\* 400 with a body that is read returns a typed error whose message is the
\* body; on 200 or 400 with a body that cannot be read the transport error is
\* returned; 401 returns a typed error with the fixed message and not the
\* body; any other status crashes.
C16_StatusMap ==
    SingleAnswered =>
        CASE final_resp.status \in {200, 400} /\ ~final_resp.readable ->
               pc = "error" /\ result = Err("single", "transport")
          [] final_resp.status = 200 /\ final_resp.readable ->
               pc = "done" /\ result = Ok(final_resp.text)
          [] final_resp.status = 400 /\ final_resp.readable ->
               pc = "error" /\ result = Err("client", final_resp.text)
          [] final_resp.status = 401 ->
               /\ pc = "error"
               /\ result = Err("client", "Wrong token")
               /\ result.detail # final_resp.text
          [] OTHER -> pc = "panicked" /\ result.tag = "Panic"

C16_Witness ==
    /\ SingleAnswered
    /\ final_resp.status = 401
    /\ final_resp.readable
    /\ result = Err("client", "Wrong token")

\* a step of the coordinator itself, as opposed to an event of the network
CoordinatorStep ==
    \/ Fill
    \/ SendComplete
    \/ \E index \in Indices :
         \/ PartStart(index)
         \/ PartSendFails(index)
         \/ PartResponse(index)
         \/ PartDecoded(index)
         \/ PartUndecodable(index)
         \/ PartPanics(index)
         \/ PartTextFails(index)
\* the coordinator has nothing to do until the network wakes a future
Waiting == pc = "parts" /\ ~ENABLED CoordinatorStep
NotCompleted == NumChunks - Len(finished)

\* C17: whenever the coordinator is waiting during Part Upload, the number of
\* PUTs in flight is min(2, number of parts not yet completed): after a part
\* completes, the next unstarted chunk is dispatched before anything is
\* waited for.
C17_WorkConserving ==
    Waiting => Cardinality(InFlight) = Min(2, NotCompleted)

C17_Witness ==
    /\ Waiting
    /\ Len(finished) = 1
    /\ NumChunks = 3
    /\ put_count[2] = 1
    /\ Cardinality(InFlight) = 2

\* C18: each entry of the Complete payload carries the part number of the
\* server's response to that part's PUT, also when it differs from the number
\* the PUT was sent with.
C18_ServerNumber ==
    CompleteIssued =>
        /\ Len(complete_body) = Len(finished)
        /\ NumbersOf(complete_body) =
             [k \in 1..Len(finished) |-> server_resp[finished[k]].part_number]

C18_Witness ==
    /\ CompleteIssued
    /\ \E k \in 1..Len(complete_body) :
         LET e == complete_body[k]
         IN  /\ put_number[e.chunk] = e.chunk + 1
             /\ server_resp[e.chunk].part_number # put_number[e.chunk]
             /\ e.part_number = server_resp[e.chunk].part_number

\* the Init response arrived and its body did not decode
InitUndecodable == init_resp.status # 0 /\ ~init_resp.decodable

\* C19 as stated: an Init response that cannot be decoded ends the process in
\* a crash.
C19_Original == InitUndecodable => pc = "panicked"

\* C19 amended: an Init response that cannot be decoded ends the upload with
\* the decode error returned to the caller, a typed error and not a crash,
\* whatever the status of the response.
C19_InitDecodeError ==
    InitUndecodable =>
        /\ pc = "error"
        /\ result = Err("init", "decode")
        /\ multipart = NoSession

C19_Witness ==
    /\ init_resp.status = 200
    /\ ~init_resp.decodable
    /\ pc = "error"
    /\ result.tag = "Err"

\* C20: the Init status is never inspected: a body that decodes starts Part
\* Upload with that session whatever the status, and only a transport or
\* decode failure stops the upload at Init.
C20_StatusIgnored ==
    /\ init_resp.decodable =>
         /\ multipart # NoSession
         /\ result.from # "init"
         /\ pc \notin {"start", "init_sent"}
    /\ result.from = "init" =>
         \/ init_resp.status = 0 /\ result = Err("init", "transport")
         \/ InitUndecodable /\ result = Err("init", "decode")
    /\ \A i \in Indices : put_count[i] > 0 => init_resp.decodable

C20_Witness ==
    /\ init_resp.status = 401
    /\ init_resp.decodable
    /\ multipart # NoSession
    /\ put_count[0] = 1

====
